---- MODULE Spec2Model ----
(***************************************************************************)
(* Verification model of the Sarvam speech-to-text scripts:                *)
(*   - SarvamBatchSTT.improve_speaker_consistency (sarvam_batch_stt.py),   *)
(*     the two-pass diarization refinement: SpecRefine;                    *)
(*   - SarvamSTT.transliterate_to_roman (sarvam_stt.py), the placeholder   *)
(*     protection, chunking loop, per-chunk service calls and restore:     *)
(*     SpecTranslit;                                                       *)
(*   - SarvamBatchSTT.parse_transcription_results, the speaker timings of  *)
(*     one result file: SpecParse;                                         *)
(*   - one job of SarvamSTT.transcribe_audio, or of the main of            *)
(*     sarvam_batch_stt.py (split, process, clean up): SpecJobs.           *)
(* Strings are sequences of one-character strings.  Times are whole        *)
(* seconds (the code's floats are compared only with 2.0, 3.0 and 30).     *)
(***************************************************************************)
EXTENDS Integers, Sequences, FiniteSets, TLC

VARIABLES
    \* ---- improve_speaker_consistency ----
    rpc,             \* position in improve_speaker_consistency
    input,           \* the caller's segments as they were when the call was made
    entries,         \* the caller's list of segment dicts (shared with improved_entries)
    merged_entries,  \* the list the call returns
    \* ---- transliterate_to_roman ----
    tpc,                     \* position in transliterate_to_roman
    text,                    \* the argument
    max_chunk_size,          \* the chunk limit of this run
    scan_back,               \* how far the break-point scan looks back
    service,                 \* behaviour of the transliteration service in this run
    text_with_placeholders,  \* text with line breaks replaced by the sentinel
    start,                   \* cursor of the chunking loop (0-based)
    chunks,                  \* chunks emitted so far
    call_failed,             \* for each service call made: did it fail
    transliterated_chunks,   \* per-chunk results
    calls,                   \* inputs of the service calls made so far, in order
    result,                  \* the value returned
    \* ---- parse_transcription_results, one result file ----
    ppc,                  \* position in the loop body for the file
    improve_diarization,  \* the argument
    data_received,        \* the file's diarized entries as the service wrote them
    data_entries,         \* the same entries as held in results["transcriptions"]
    diarized,             \* the local list the timings are computed from
    pos,                  \* entries of diarized already accumulated
    speaker_times,        \* speaker -> seconds
    speaker_percentages,  \* speaker -> time_sec / total_time * 100, as a fraction
    \* ---- SarvamSTT.transcribe_audio, one job ----
    jpc,              \* position in transcribe_audio
    audio_exists,     \* os.path.exists(audio_path)
    output_file,      \* was an output file name given
    marker_every,     \* period of the chunk-number marker of this run
    audio_duration,   \* <<>> for None, <<d>> for d seconds
    split_calls,      \* ffmpeg invocations: segment_time and whether it succeeded
    dir_files,        \* indices of the chunk files present in "chunks"
    chunk_paths,      \* the list split_audio_ffmpeg returned
    uploads,          \* what was sent to the speech-to-text service, in order
    transcripts,      \* what transcribe_chunk returned, per chunk
    full_transcript,  \* the accepted chunk transcripts
    removed,          \* chunk files for which os.remove has been attempted
    transcript,       \* the job's transcript
    job_outcome,      \* "running", "success" (completed successfully) or "failed"
    returned,         \* <<>> for None, <<t>> for the transcript t
    files_written,    \* output files written
    \* ---- sarvam_batch_stt.py main: split, process, clean up ----
    bpc,              \* position in main
    caller,           \* "main" of sarvam_batch_stt.py or "streamlit" (process_audio)
    duration_ms,      \* what get_audio_duration_ms returned
    batch_split_calls,  \* ffmpeg invocations: segment_time and whether it succeeded
    batch_dir_files,  \* indices of the chunk files present in "batch_chunks"
    audio_paths,      \* the plan split_audio_if_needed returned
    steps,            \* steps of process_batch_transcription begun, in order
    results,          \* "none", or what process_batch_transcription returned
    batch_removed,    \* chunk files for which os.remove has been attempted
    \* ---- improve_speaker_consistency applied to its own output ----
    apc,              \* how many applications have been made
    segments,         \* the segments the first application is given
    once,             \* improve_speaker_consistency(segments)
    twice             \* improve_speaker_consistency(once)

refineVars == <<rpc, input, entries, merged_entries>>

translitVars == <<tpc, text, max_chunk_size, scan_back, service,
                  text_with_placeholders, start, chunks, call_failed,
                  transliterated_chunks, calls, result>>

parseVars == <<ppc, improve_diarization, data_received, data_entries, diarized,
               pos, speaker_times, speaker_percentages>>

jobVars == <<jpc, audio_exists, output_file, marker_every, audio_duration,
             split_calls, dir_files, chunk_paths, uploads, transcripts,
             full_transcript, removed, transcript, job_outcome, returned,
             files_written>>

batchVars == <<bpc, caller, duration_ms, batch_split_calls, batch_dir_files,
               audio_paths, steps, results, batch_removed>>

reapplyVars == <<apc, segments, once, twice>>

vars == <<refineVars, translitVars, parseVars, jobVars, batchVars, reapplyVars>>

\* what an action of one function leaves alone
outsideRefine == <<translitVars, parseVars, jobVars, batchVars, reapplyVars>>

outsideTranslit == <<refineVars, parseVars, jobVars, batchVars, reapplyVars>>

outsideParse == <<refineVars, translitVars, jobVars, batchVars, reapplyVars>>

outsideJob == <<refineVars, translitVars, parseVars, batchVars, reapplyVars>>

outsideBatch == <<refineVars, translitVars, parseVars, jobVars, reapplyVars>>

outsideReapply == <<refineVars, translitVars, parseVars, jobVars, batchVars>>

-----------------------------------------------------------------------------
(* Bounds of the model. *)

MaxSegs == 4

MaxTokens == 3

MaxChunks == 5
\* most diarized entries in one result file
MaxDiarized == 3
\* most chunks one audio file is split into
MaxAudioChunks == 3
\* most segments given to the repeated application
MaxReapplied == 4

-----------------------------------------------------------------------------
(* Generic helpers. *)

RECURSIVE Concat(_)
Concat(ss) == IF ss = <<>> THEN <<>> ELSE Head(ss) \o Concat(Tail(ss))

Max(a, b) == IF a >= b THEN a ELSE b

Min(a, b) == IF a <= b THEN a ELSE b

-----------------------------------------------------------------------------
(***************************************************************************)
(* improve_speaker_consistency                                             *)
(***************************************************************************)

Speakers == {"SPEAKER_00", "SPEAKER_01", "SPEAKER_02"}

\* duration < 2.0 makes a segment "very short"
ShortSegmentSeconds == 2

\* a gap > 3.0 between same-speaker segments breaks the merge
MergeGapSeconds == 3

\* a segment shorter than / exactly at the short-segment threshold
Durations == {ShortSegmentSeconds - 1, ShortSegmentSeconds}

\* start of the next segment minus end of this one: overlapping, exactly at
\* the merge threshold, just beyond it
Gaps == {0 - ShortSegmentSeconds, MergeGapSeconds, MergeGapSeconds + 1}

Words == <<"w1", "w2", "w3", "w4", "w5", "w6", "w7", "w8">>

\* One diarized entry of the service's result payload.
Entry(spk, txt, s, e) ==
    [speaker_id |-> spk, transcript |-> txt,
     start_time_seconds |-> s, end_time_seconds |-> e]

\* entries[k] starts at the end of entries[k-1] plus a gap; the first at 0.
RECURSIVE BuildEntries(_, _, _, _)
BuildEntries(spk, dur, gap, k) ==
    IF k = 0 THEN <<>>
    ELSE LET prev == BuildEntries(spk, dur, gap, k - 1)
             s    == IF k = 1 THEN 0 ELSE prev[k-1].end_time_seconds + gap[k]
         IN  Append(prev, Entry(spk[k], <<Words[k]>>, s, s + dur[k]))

\* segments as received are ordered by start_time_seconds, end >= start
Ordered(es) ==
    \A k \in 1..Len(es) :
        /\ es[k].end_time_seconds >= es[k].start_time_seconds
        /\ k > 1 => es[k].start_time_seconds >= es[k-1].start_time_seconds

Duration(e) == e.end_time_seconds - e.start_time_seconds

\* mutant: the guard written as len(entries) < 2
TooShortToRefine_LessThan2(es) == Len(es) < 2

\* sarvam_batch_stt.py:148  if len(entries) < 3: return entries
TooShortToRefine(es) == Len(es) < 3

\* mutant: current_duration <= 2.0
ShouldReassign_AtMost(current, prev_entry, next_entry) ==
    /\ current.end_time_seconds - current.start_time_seconds <= ShortSegmentSeconds
    /\ prev_entry.speaker_id = next_entry.speaker_id
    /\ current.speaker_id # prev_entry.speaker_id

\* mutant: the test that the two neighbours have the same speaker is missing
ShouldReassign_IgnoresNext(current, prev_entry, next_entry) ==
    /\ current.end_time_seconds - current.start_time_seconds < ShortSegmentSeconds
    /\ current.speaker_id # prev_entry.speaker_id

\* sarvam_batch_stt.py:163-165, the Rule 1 test for improved_entries[i]
ShouldReassign(current, prev_entry, next_entry) ==
    /\ Duration(current) < ShortSegmentSeconds
    /\ prev_entry.speaker_id = next_entry.speaker_id
    /\ current.speaker_id # prev_entry.speaker_id

\* sarvam_batch_stt.py:155-168, the loop from index i (1-based here) on; the
\* write goes to the dict shared with the caller's list, and later iterations
\* read it.
RECURSIVE Rule1From(_, _)
Rule1From(es, i) ==
    IF i > Len(es) - 1 THEN es
    ELSE IF ShouldReassign(es[i], es[i-1], es[i+1])
         THEN Rule1From([es EXCEPT ![i].speaker_id = es[i-1].speaker_id], i + 1)
         ELSE Rule1From(es, i + 1)

\* mutant: every interior segment is tested on the labels as received
Rule1_Snapshot(es) ==
    [k \in 1..Len(es) |->
        IF k \in 2..(Len(es) - 1) /\ ShouldReassign(es[k], es[k-1], es[k+1])
        THEN [es[k] EXCEPT !.speaker_id = es[k-1].speaker_id]
        ELSE es[k]]

Rule1(es) == Rule1From(es, 2)

\* mutant: the gap test written with >=
StartsNewMerged_AtLeast(current_merged, entry) ==
    \/ current_merged = <<>>
    \/ current_merged[1].speaker_id # entry.speaker_id
    \/ entry.start_time_seconds - current_merged[1].end_time_seconds >= MergeGapSeconds

\* mutant: the gap measured to the entry's end instead of its start
StartsNewMerged_FromEnd(current_merged, entry) ==
    \/ current_merged = <<>>
    \/ current_merged[1].speaker_id # entry.speaker_id
    \/ entry.end_time_seconds - current_merged[1].end_time_seconds > MergeGapSeconds

\* sarvam_batch_stt.py:175-177, whether entry starts a new merged segment;
\* current_merged is <<>> for None, <<m>> otherwise
StartsNewMerged(current_merged, entry) ==
    \/ current_merged = <<>>
    \/ current_merged[1].speaker_id # entry.speaker_id
    \/ entry.start_time_seconds - current_merged[1].end_time_seconds > MergeGapSeconds

\* mutant: the texts are joined without the space
MergeInto_NoSpace(m, entry) ==
    [m EXCEPT !.transcript = m.transcript \o entry.transcript,
              !.end_time_seconds = entry.end_time_seconds]

\* mutant: the entry's start is written instead of its end
MergeInto_StartWritten(m, entry) ==
    [m EXCEPT !.transcript = m.transcript \o <<" ">> \o entry.transcript,
              !.start_time_seconds = entry.start_time_seconds]

\* mutant: line 185 forgotten, the merged end is not advanced
MergeInto_EndNotAdvanced(m, entry) ==
    [m EXCEPT !.transcript = m.transcript \o <<" ">> \o entry.transcript]

\* sarvam_batch_stt.py:184-185, merge entry into current_merged
MergeInto(m, entry) ==
    [m EXCEPT !.transcript = m.transcript \o <<" ">> \o entry.transcript,
              !.end_time_seconds = entry.end_time_seconds]

\* sarvam_batch_stt.py:171-190, the Rule 2 loop from index k on
RECURSIVE Rule2From(_, _, _, _)
Rule2From(es, k, merged, current_merged) ==
    IF k > Len(es)
    THEN merged \o current_merged
    ELSE IF StartsNewMerged(current_merged, es[k])
         THEN Rule2From(es, k + 1, merged \o current_merged, <<es[k]>>)
         ELSE Rule2From(es, k + 1, merged, <<MergeInto(current_merged[1], es[k])>>)

Rule2(es) == Rule2From(es, 1, <<>>, <<>>)

RefineIdle ==
    /\ rpc = "idle" /\ input = <<>> /\ entries = <<>> /\ merged_entries = <<>>

RefineInit ==
    /\ rpc = "called"
    /\ \E n \in 0..MaxSegs :
         \E spk \in [1..n -> Speakers], dur \in [1..n -> Durations], gap \in [2..n -> Gaps] :
            LET es == BuildEntries(spk, dur, gap, n)
            IN  Ordered(es) /\ input = es /\ entries = es
    /\ merged_entries = <<>>

\* lines 148-149: fewer than 3 entries, the list itself is returned
ReturnShort ==
    /\ rpc = "called"
    /\ TooShortToRefine(entries)
    /\ merged_entries' = entries
    /\ rpc' = "returned"
    /\ UNCHANGED <<input, entries, outsideRefine>>

\* lines 151-168: improved_entries = entries.copy() is a new list of the same
\* dicts, so Rule 1's writes are writes to the caller's entries
ReassignShortSegments ==
    /\ rpc = "called"
    /\ ~TooShortToRefine(entries)
    /\ entries' = Rule1(entries)
    /\ rpc' = "reassigned"
    /\ UNCHANGED <<input, merged_entries, outsideRefine>>

\* lines 170-190: merged segments are copies (entry.copy()), returned
MergeConsecutive ==
    /\ rpc = "reassigned"
    /\ merged_entries' = Rule2(entries)
    /\ rpc' = "returned"
    /\ UNCHANGED <<input, entries, outsideRefine>>

RefineNext == ReturnShort \/ ReassignShortSegments \/ MergeConsecutive

-----------------------------------------------------------------------------
(***************************************************************************)
(* transliterate_to_roman                                                  *)
(***************************************************************************)

\* sarvam_stt.py:198  max_chunk_size = 900
CodeMaxChunkSize == 900

\* sarvam_stt.py:220  range(end, max(start, end - 100), -1)
CodeScanBack == 100

\* The code fixes the chunk limit at 900 and the look-back at 100; the model
\* runs the same loop also with small limits, so that short texts are split.
ChunkSizes == {1, 2, 5, 12, CodeMaxChunkSize}

ScanBacks == {1, CodeScanBack}

NL == "\n"

LINEBREAK == <<"<", "L", "I", "N", "E", "B", "R", "E", "A", "K", ">">>

PaddedLinebreak == <<" ">> \o LINEBREAK \o <<" ">>

ErrorFlag == <<"[", "E", "r", "r", "o", "r", ":">>

BreakChars == {" ", ".", "!", "?", ","}

\* Pieces the input texts are built from: a Devanagari letter (stand-in "x"),
\* a space, a full stop, a line break, the literal text <LINEBREAK>, the
\* error flag.
Tokens == {<<"x">>, <<" ">>, <<".">>, <<NL>>, LINEBREAK, ErrorFlag}

\* Python's None as an argument: a value that is no string (no character is
\* "None")
NoneText == <<"None">>

Texts ==
    UNION { { Concat(ts) : ts \in [1..n -> Tokens] } : n \in 0..MaxTokens } \cup {NoneText}

\* Python s[a:b] for 0 <= a, with b clamped to len(s)
Slice(s, a, b) == SubSeq(s, a + 1, Min(b, Len(s)))

\* Python s[i], 0-based
At(s, i) == s[i + 1]

\* Python s.startswith(p)
StartsWith(s, p) == Len(s) >= Len(p) /\ SubSeq(s, 1, Len(p)) = p

\* Python s.replace(old, new) for a non-empty old: leftmost occurrences,
\* non-overlapping, left to right
RECURSIVE Replace(_, _, _)
Replace(s, old, new) ==
    IF Len(s) < Len(old) THEN s
    ELSE IF SubSeq(s, 1, Len(old)) = old
         THEN new \o Replace(SubSeq(s, Len(old) + 1, Len(s)), old, new)
         ELSE <<Head(s)>> \o Replace(Tail(s), old, new)

\* mutant: only the emptiness test, the error flag is not looked at
SkipTransliteration_EmptyOnly(t) == t = NoneText \/ t = <<>>

\* sarvam_stt.py:188  not text or text.startswith("[Error:")
SkipTransliteration(t) == t = NoneText \/ t = <<>> \/ StartsWith(t, ErrorFlag)

\* sarvam_stt.py:195  text.replace('\n', ' <LINEBREAK> ')
Protect(t) == Replace(t, <<NL>>, PaddedLinebreak)

\* sarvam_stt.py:204, 238  .replace(' <LINEBREAK> ', '\n').replace('<LINEBREAK>', '\n')
Restore(r) == Replace(Replace(r, PaddedLinebreak, <<NL>>), LINEBREAK, <<NL>>)

\* sarvam_stt.py:221, the break test at index i
IsBreakAt(s, i) == At(s, i) \in BreakChars \/ Slice(s, i, i + 11) = LINEBREAK

\* sarvam_stt.py:219-223: i runs from end down to lo + 1, the first hit wins;
\* without a hit break_point stays end
RECURSIVE ScanBreakPoint(_, _, _, _)
ScanBreakPoint(s, i, lo, end) ==
    IF i <= lo THEN end
    ELSE IF IsBreakAt(s, i) THEN i + 1
         ELSE ScanBreakPoint(s, i - 1, lo, end)

\* mutant: the scan also examines index max(start, end - 100) itself
BreakPoint_Inclusive(s, st, end, back) ==
    ScanBreakPoint(s, end, Max(st, end - back) - 1, end)

BreakPoint(s, st, end, back) == ScanBreakPoint(s, end, Max(st, end - back), end)

\* sarvam_stt.py:225-226  chunks.append(text[start:break_point]); start = break_point
NextChunk(s, st, break_point) == Slice(s, st, break_point)

\* mutant: the cursor is moved past the character after the break point
NextStart_SkipsOne(st, break_point) == break_point + 1

NextStart(st, break_point) == break_point

\* The remote transliteration service (client.text.transliterate), as a
\* function of its input: "identity" returns the input, "roman" renders the
\* Devanagari letter in Roman script and leaves everything else alone.
ServiceModes == {"identity", "roman"}

ServiceResult(mode, chunk) ==
    IF mode = "identity" THEN chunk
    ELSE [k \in 1..Len(chunk) |-> IF chunk[k] = "x" THEN "y" ELSE chunk[k]]

\* Outcomes of one call: a response with transliterated_text, a response
\* without it, an exception.
CallOutcomes == {"ok", "no_field", "raised"}

\* sarvam_stt.py:300-320  _transliterate_chunk
TransliterateChunk(mode, chunk, outcome) ==
    IF outcome = "ok" THEN ServiceResult(mode, chunk) ELSE chunk

\* mutant: the results joined with a space between them
RECURSIVE JoinChunks_WithSpace(_)
JoinChunks_WithSpace(tcs) ==
    IF Len(tcs) <= 1 THEN Concat(tcs)
    ELSE Head(tcs) \o <<" ">> \o JoinChunks_WithSpace(Tail(tcs))

\* sarvam_stt.py:236  "".join(transliterated_chunks)
JoinChunks(tcs) == Concat(tcs)

TranslitIdle ==
    /\ tpc = "idle" /\ text = <<>> /\ max_chunk_size = 0 /\ scan_back = 0
    /\ service = "identity" /\ text_with_placeholders = <<>> /\ start = 0
    /\ chunks = <<>> /\ call_failed = <<>> /\ transliterated_chunks = <<>>
    /\ calls = <<>> /\ result = <<>>

TranslitInit ==
    /\ tpc = "entry"
    /\ text \in Texts
    /\ max_chunk_size \in ChunkSizes
    /\ scan_back \in ScanBacks
    /\ service \in ServiceModes
    /\ Len(Protect(text)) <= max_chunk_size * MaxChunks
    /\ text_with_placeholders = <<>> /\ start = 0
    /\ chunks = <<>> /\ call_failed = <<>> /\ transliterated_chunks = <<>>
    /\ calls = <<>> /\ result = <<>>

\* lines 188-190: empty or error-flagged text is returned as it is
PassThrough ==
    /\ tpc = "entry"
    /\ SkipTransliteration(text)
    /\ result' = text
    /\ tpc' = "done"
    /\ UNCHANGED <<outsideTranslit, text, max_chunk_size, scan_back, service, text_with_placeholders,
                   start, chunks, call_failed, transliterated_chunks, calls>>

\* lines 195-200, 207-211: protect the line breaks and choose the path
ProtectLineBreaks ==
    /\ tpc = "entry"
    /\ ~SkipTransliteration(text)
    /\ text_with_placeholders' = Protect(text)
    /\ tpc' = IF Len(Protect(text)) <= max_chunk_size THEN "single" ELSE "split"
    /\ start' = 0
    /\ chunks' = <<>>
    /\ UNCHANGED <<outsideTranslit, text, max_chunk_size, scan_back, service, call_failed,
                   transliterated_chunks, calls, result>>

\* lines 202-204: one call with the whole padded text, then restore
SingleCall ==
    /\ tpc = "single"
    /\ \E outcome \in CallOutcomes :
         /\ calls' = Append(calls, text_with_placeholders)
         /\ call_failed' = Append(call_failed, outcome # "ok")
         /\ result' = Restore(TransliterateChunk(service, text_with_placeholders, outcome))
    /\ tpc' = "done"
    /\ UNCHANGED <<outsideTranslit, text, max_chunk_size, scan_back, service, text_with_placeholders,
                   start, chunks, transliterated_chunks>>

\* lines 212-226: one iteration of the chunking loop
SplitStep ==
    /\ tpc = "split"
    /\ start < Len(text_with_placeholders)
    /\ LET end == start + max_chunk_size
           s   == text_with_placeholders
       IN  IF end >= Len(s)
           THEN /\ chunks' = Append(chunks, Slice(s, start, Len(s)))
                /\ tpc' = "translit"
                /\ start' = start
           ELSE LET break_point == BreakPoint(s, start, end, scan_back)
                IN  /\ chunks' = Append(chunks, NextChunk(s, start, break_point))
                    /\ start' = NextStart(start, break_point)
                    /\ tpc' = "split"
    /\ UNCHANGED <<outsideTranslit, text, max_chunk_size, scan_back, service, text_with_placeholders,
                   call_failed, transliterated_chunks, calls, result>>

\* line 212: the loop ends when the cursor has reached the end of the text
SplitExit ==
    /\ tpc = "split"
    /\ start >= Len(text_with_placeholders)
    /\ tpc' = "translit"
    /\ UNCHANGED <<outsideTranslit, text, max_chunk_size, scan_back, service, text_with_placeholders,
                   start, chunks, call_failed, transliterated_chunks, calls, result>>

\* lines 231-234: the next chunk is sent to the service
TransliterateNext ==
    /\ tpc = "translit"
    /\ Len(transliterated_chunks) < Len(chunks)
    /\ LET chunk == chunks[Len(transliterated_chunks) + 1]
       IN  \E outcome \in CallOutcomes :
             /\ calls' = Append(calls, chunk)
             /\ call_failed' = Append(call_failed, outcome # "ok")
             /\ transliterated_chunks' =
                    Append(transliterated_chunks, TransliterateChunk(service, chunk, outcome))
    /\ UNCHANGED <<outsideTranslit, tpc, text, max_chunk_size, scan_back, service,
                   text_with_placeholders, start, chunks, result>>

\* lines 236-242: join the results and restore the line breaks
JoinAndRestore ==
    /\ tpc = "translit"
    /\ Len(transliterated_chunks) = Len(chunks)
    /\ result' = Restore(JoinChunks(transliterated_chunks))
    /\ tpc' = "done"
    /\ UNCHANGED <<outsideTranslit, text, max_chunk_size, scan_back, service, text_with_placeholders,
                   start, chunks, call_failed, transliterated_chunks, calls>>

TranslitNext ==
    \/ PassThrough
    \/ ProtectLineBreaks
    \/ SingleCall
    \/ SplitStep
    \/ SplitExit
    \/ TransliterateNext
    \/ JoinAndRestore

-----------------------------------------------------------------------------
(* Specifications. *)

-----------------------------------------------------------------------------
(***************************************************************************)
(* parse_transcription_results (sarvam_batch_stt.py:192-298): the body of  *)
(* the loop for one result file.  A percentage is kept as the fraction     *)
(* num / den of (time_sec / total_time) * 100.                             *)
(***************************************************************************)

\* sarvam_batch_stt.py:146-190, the value improve_speaker_consistency returns
ImproveSpeakerConsistency(es) ==
    IF TooShortToRefine(es) THEN es ELSE Rule2(Rule1(es))

\* sarvam_batch_stt.py:151-168, what the call leaves in the caller's dicts
EntriesAfterCall(es) ==
    IF TooShortToRefine(es) THEN es ELSE Rule1(es)

ParseDurations == {0, ShortSegmentSeconds - 1, ShortSegmentSeconds}

ParseGaps == {0, MergeGapSeconds + 1}

NoTimes == [s \in {} |-> 0]

\* mutant: the entry's duration replaces the speaker's time
AccumulateTime_Overwrite(times, entry) ==
    LET duration == entry.end_time_seconds - entry.start_time_seconds
        speaker  == entry.speaker_id
    IN  [s \in DOMAIN times \cup {speaker} |->
            IF s = speaker THEN duration ELSE times[s]]

\* sarvam_batch_stt.py:245-246
AccumulateTime(times, entry) ==
    LET duration == entry.end_time_seconds - entry.start_time_seconds
        speaker  == entry.speaker_id
    IN  [s \in DOMAIN times \cup {speaker} |->
            IF s = speaker
            THEN (IF s \in DOMAIN times THEN times[s] ELSE 0) + duration
            ELSE times[s]]

\* sarvam_batch_stt.py:268  sum(speaker_times.values())
RECURSIVE SumValues(_)
SumValues(times) ==
    IF DOMAIN times = {} THEN 0
    ELSE LET s == CHOOSE x \in DOMAIN times : TRUE
         IN  times[s] + SumValues([x \in DOMAIN times \ {s} |-> times[x]])

\* sarvam_batch_stt.py:268-271
Percentages(times) ==
    LET total_time == SumValues(times)
    IN  IF total_time > 0
        THEN [s \in DOMAIN times |-> [num |-> times[s] * 100, den |-> total_time]]
        ELSE [s \in {} |-> [num |-> 0, den |-> 1]]

ParseIdle ==
    /\ ppc = "idle" /\ improve_diarization = FALSE
    /\ data_received = <<>> /\ data_entries = <<>> /\ diarized = <<>>
    /\ pos = 0 /\ speaker_times = NoTimes
    /\ speaker_percentages = Percentages(NoTimes)

\* lines 211-220: the file is read, diarized is the list held inside data
ParseInit ==
    /\ ppc = "loaded"
    /\ improve_diarization \in BOOLEAN
    /\ \E n \in 0..MaxDiarized :
         \E spk \in [1..n -> Speakers], dur \in [1..n -> ParseDurations],
            gap \in [2..n -> ParseGaps] :
            LET es == BuildEntries(spk, dur, gap, n)
            IN  data_received = es /\ data_entries = es /\ diarized = es
    /\ pos = 0
    /\ speaker_times = NoTimes
    /\ speaker_percentages = Percentages(NoTimes)

\* lines 223-227
ApplyImprovement ==
    /\ ppc = "loaded"
    /\ diarized # <<>> /\ improve_diarization
    /\ diarized' = ImproveSpeakerConsistency(diarized)
    /\ data_entries' = EntriesAfterCall(data_entries)
    /\ ppc' = "entries"
    /\ UNCHANGED <<improve_diarization, data_received, pos, speaker_times,
                   speaker_percentages, outsideParse>>

\* line 223, condition false
SkipImprovement ==
    /\ ppc = "loaded"
    /\ ~(diarized # <<>> /\ improve_diarization)
    /\ ppc' = "entries"
    /\ UNCHANGED <<improve_diarization, data_received, data_entries, diarized,
                   pos, speaker_times, speaker_percentages, outsideParse>>

\* lines 234-246, one iteration
AccumulateEntry ==
    /\ ppc = "entries"
    /\ diarized # <<>>
    /\ pos < Len(diarized)
    /\ speaker_times' = AccumulateTime(speaker_times, diarized[pos + 1])
    /\ pos' = pos + 1
    /\ UNCHANGED <<ppc, improve_diarization, data_received, data_entries,
                   diarized, speaker_percentages, outsideParse>>

\* lines 248-276: conversation saved, percentages computed, timing saved
SaveTiming ==
    /\ ppc = "entries"
    /\ diarized # <<>>
    /\ pos = Len(diarized)
    /\ speaker_percentages' = Percentages(speaker_times)
    /\ ppc' = "saved_timing"
    /\ UNCHANGED <<improve_diarization, data_received, data_entries, diarized,
                   pos, speaker_times, outsideParse>>

\* lines 280-293: no diarized entries, the transcript alone is saved
SaveTranscriptOnly ==
    /\ ppc = "entries"
    /\ diarized = <<>>
    /\ ppc' = "saved_transcript"
    /\ UNCHANGED <<improve_diarization, data_received, data_entries, diarized,
                   pos, speaker_times, speaker_percentages, outsideParse>>

ParseNext ==
    \/ ApplyImprovement
    \/ SkipImprovement
    \/ AccumulateEntry
    \/ SaveTiming
    \/ SaveTranscriptOnly

-----------------------------------------------------------------------------
(***************************************************************************)
(* SarvamSTT.transcribe_audio (sarvam_stt.py:432-509) with                 *)
(* split_audio_ffmpeg, transcribe_chunk, extract_transcript_text,          *)
(* transcribe_audio_chunks and transcribe_short_audio.  Durations are      *)
(* whole seconds.                                                          *)
(***************************************************************************)

\* sarvam_stt.py:47
ChunkDurationSeconds == 29

\* sarvam_stt.py:449
SplitThresholdSeconds == 30

\* sarvam_stt.py:372-373, the code's marker period
CodeMarkerEvery == 10

MarkerPeriods == {2, CodeMarkerEvery}

\* what get_audio_duration can return: None, or the seconds ffprobe printed
ProbeResults ==
    {<<>>, <<0>>, <<ChunkDurationSeconds>>, <<SplitThresholdSeconds>>,
     <<SplitThresholdSeconds + 1>>}
    \cup { <<ChunkDurationSeconds * k>> : k \in 2..MaxAudioChunks }

\* number of segments ffmpeg writes for d seconds of audio
NumChunks(d, segment_time) == (d + segment_time - 1) \div segment_time

\* the service call raised
Raised == <<"<exception>">>

\* the transcript attribute of a response
ApiTranscripts ==
    { <<>>, <<" ">>, <<"x", ".">>, <<" ", "A", " ", " ", "x", " ", "?", " ">> }

ApiResponses == {Raised} \cup ApiTranscripts

WhiteSpace == {" ", NL}

Punctuation == {".", "!", "?"}

Capitals == {"A", "B", "C", "D", "E", "F", "G", "H", "I", "J", "K", "L", "M",
             "N", "O", "P", "Q", "R", "S", "T", "U", "V", "W", "X", "Y", "Z"}

\* Python s.lstrip()
RECURSIVE LStrip(_)
LStrip(t) ==
    IF t # <<>> /\ Head(t) \in WhiteSpace THEN LStrip(Tail(t)) ELSE t

\* Python s.rstrip()
RECURSIVE RStrip(_)
RStrip(t) ==
    IF t # <<>> /\ t[Len(t)] \in WhiteSpace
    THEN RStrip(SubSeq(t, 1, Len(t) - 1)) ELSE t

\* Python s.strip()
Strip(t) == RStrip(LStrip(t))

\* sarvam_stt.py:164
ExtractError ==
    ErrorFlag \o <<" ", "C", "o", "u", "l", "d", " ", "n", "o", "t", " ", "e", "x", "t", "r", "a", "c", "t", " ", "t", "r", "a", "n", "s", "c", "r", "i", "p", "t", " ", "t", "e", "x", "t", "]">>

\* sarvam_stt.py:360
NoChunksError ==
    ErrorFlag \o <<" ", "N", "o", " ", "c", "h", "u", "n", "k", "s", " ", "w", "e", "r", "e", " ", "s", "u", "c", "c", "e", "s", "s", "f", "u", "l", "l", "y", " ", "t", "r", "a", "n", "s", "c", "r", "i", "b", "e", "d", "]">>

\* sarvam_stt.py:113-168: the stripped transcript attribute if it is not
\* empty; an empty one is not found by the fallback patterns either
ExtractTranscriptText(response) ==
    IF response # <<>> THEN Strip(response) ELSE ExtractError

\* sarvam_stt.py:322-336 and 396-412
TranscribeResult(response) ==
    IF response = Raised THEN <<>> ELSE ExtractTranscriptText(response)

\* mutant: an error-flagged transcript is accepted
AppendTranscript_KeepsFlagged(full, t) ==
    IF t # <<>>
    THEN (IF Strip(t) # <<>> THEN Append(full, Strip(t)) ELSE full)
    ELSE full

\* sarvam_stt.py:350-357
AppendTranscript(full, t) ==
    IF t # <<>> /\ ~StartsWith(t, ErrorFlag)
    THEN (IF Strip(t) # <<>> THEN Append(full, Strip(t)) ELSE full)
    ELSE full

Digits == <<"0", "1", "2", "3", "4", "5", "6", "7", "8", "9">>

\* Python str(n) for n >= 0
RECURSIVE Str(_)
Str(n) == IF n < 10 THEN <<Digits[n + 1]>>
          ELSE Str(n \div 10) \o <<Digits[(n % 10) + 1]>>

\* sarvam_stt.py:373  f"\n--- Chunk {i+1}-{min(i+10, len(full_transcript))} ---"
ChunkMarker(i, n, every) ==
    <<NL, "-", "-", "-", " ", "C", "h", "u", "n", "k", " ">> \o Str(i + 1)
    \o <<"-">> \o Str(Min(i + every, n)) \o <<" ", "-", "-", "-">>

\* sarvam_stt.py:366-375, from index i (0-based) on
RECURSIVE CombinedChunksFrom(_, _, _)
CombinedChunksFrom(full, i, every) ==
    IF i >= Len(full) THEN <<>>
    ELSE (IF i % every = 0 /\ Len(full) > every
          THEN <<ChunkMarker(i, Len(full), every)>> ELSE <<>>)
         \o <<Strip(full[i + 1])>>
         \o CombinedChunksFrom(full, i + 1, every)

\* Python sep.join(parts)
RECURSIVE Join(_, _)
Join(sep, parts) ==
    IF parts = <<>> THEN <<>>
    ELSE IF Len(parts) = 1 THEN Head(parts)
    ELSE Head(parts) \o sep \o Join(sep, Tail(parts))

\* sarvam_stt.py:381  re.sub(r' +', ' ', combined)
RECURSIVE CollapseSpaces(_)
CollapseSpaces(t) ==
    IF Len(t) < 2 THEN t
    ELSE IF t[1] = " " /\ t[2] = " " THEN CollapseSpaces(Tail(t))
    ELSE <<Head(t)>> \o CollapseSpaces(Tail(t))

\* sarvam_stt.py:386  re.sub(r'([.!?])\s+([A-Z])', r'\1\n\2', combined)
RECURSIVE BreakBeforeCapital(_)
BreakBeforeCapital(t) ==
    IF t = <<>> THEN <<>>
    ELSE LET rest  == Tail(t)
             after == LStrip(rest)
         IN  IF /\ Head(t) \in Punctuation
                /\ Len(after) < Len(rest)
                /\ after # <<>>
                /\ Head(after) \in Capitals
             THEN <<Head(t), NL, Head(after)>> \o BreakBeforeCapital(Tail(after))
             ELSE <<Head(t)>> \o BreakBeforeCapital(rest)

\* sarvam_stt.py:389  re.sub(r'([.!?])\s+', r'\1\n', combined)
RECURSIVE BreakAfterSentence(_)
BreakAfterSentence(t) ==
    IF t = <<>> THEN <<>>
    ELSE LET rest  == Tail(t)
             after == LStrip(rest)
         IN  IF Head(t) \in Punctuation /\ Len(after) < Len(rest)
             THEN <<Head(t), NL>> \o BreakAfterSentence(after)
             ELSE <<Head(t)>> \o BreakAfterSentence(rest)

\* the first character of t and those equal to it right after it
RECURSIVE RunLength(_)
RunLength(t) ==
    IF Len(t) >= 2 /\ t[2] = t[1] THEN 1 + RunLength(Tail(t)) ELSE 1

\* sarvam_stt.py:392  re.sub(r'\n{3,}', '\n\n', combined)
RECURSIVE LimitLineBreaks(_)
LimitLineBreaks(t) ==
    IF t = <<>> THEN <<>>
    ELSE IF Head(t) = NL /\ RunLength(t) >= 3
         THEN <<NL, NL>> \o LimitLineBreaks(SubSeq(t, RunLength(t) + 1, Len(t)))
    ELSE IF Head(t) = NL
         THEN SubSeq(t, 1, RunLength(t))
              \o LimitLineBreaks(SubSeq(t, RunLength(t) + 1, Len(t)))
    ELSE <<Head(t)>> \o LimitLineBreaks(Tail(t))

\* sarvam_stt.py:381-392
CleanUpFormatting(combined) ==
    LET c1 == CollapseSpaces(combined)
        c2 == Replace(Replace(c1, <<" ", ".">>, <<".">>), <<" ", ",">>, <<",">>)
        c3 == Replace(Replace(c2, <<" ", "?">>, <<"?">>), <<" ", "!">>, <<"!">>)
    IN  LimitLineBreaks(BreakAfterSentence(BreakBeforeCapital(c3)))

\* sarvam_stt.py:359-394
CombineTranscripts(full, every) ==
    IF full = <<>> THEN NoChunksError
    ELSE CleanUpFormatting(
             Strip(Join(<<NL, NL>>, CombinedChunksFrom(full, 0, every))))

\* sorted(...) of the chunk files, which differ in their index only
RECURSIVE Sorted(_)
Sorted(S) ==
    IF S = {} THEN <<>>
    ELSE LET m == CHOOSE x \in S : \A y \in S : x <= y
         IN  <<m>> \o Sorted(S \ {m})

\* chunk files an earlier job on an audio of the same name (or of a name
\* that begins with it) left in the chunk directory, after a deletion that
\* failed or a split that failed part-way: none, or the one of some index
Leftovers == {{}} \cup { {k} : k \in 0..(MaxAudioChunks - 1) }

OriginalFile == [kind |-> "original", index |-> 0]

ChunkFile(i) == [kind |-> "chunk", index |-> i]

\* mutant: the split threshold is the chunk duration
ShouldSplit_AtChunkDuration(d) == d # <<>> /\ d[1] # 0 /\ d[1] > ChunkDurationSeconds

\* sarvam_stt.py:449  duration and duration > 30
ShouldSplit(d) == d # <<>> /\ d[1] # 0 /\ d[1] > SplitThresholdSeconds

JobIdle ==
    /\ jpc = "idle" /\ audio_exists = FALSE /\ output_file = FALSE
    /\ marker_every = CodeMarkerEvery /\ audio_duration = <<>>
    /\ split_calls = <<>> /\ dir_files = {} /\ chunk_paths = <<>>
    /\ uploads = <<>> /\ transcripts = <<>> /\ full_transcript = <<>>
    /\ removed = 0 /\ transcript = <<>> /\ job_outcome = "running"
    /\ returned = <<>> /\ files_written = {}

\* transcribe_audio is called
JobInit ==
    /\ jpc = "start"
    /\ audio_exists \in BOOLEAN
    /\ output_file \in BOOLEAN
    /\ marker_every \in MarkerPeriods
    /\ audio_duration = <<>>
    /\ split_calls = <<>> /\ dir_files \in Leftovers /\ chunk_paths = <<>>
    /\ uploads = <<>> /\ transcripts = <<>> /\ full_transcript = <<>>
    /\ removed = 0 /\ transcript = <<>> /\ job_outcome = "running"
    /\ returned = <<>> /\ files_written = {}

\* lines 436-438
FileNotFound ==
    /\ jpc = "start"
    /\ ~audio_exists
    /\ returned' = <<>>
    /\ job_outcome' = "failed"
    /\ jpc' = "done"
    /\ UNCHANGED <<audio_exists, output_file, marker_every, audio_duration,
                   split_calls, dir_files, chunk_paths, uploads, transcripts,
                   full_transcript, removed, transcript, files_written,
                   outsideJob>>

\* line 444 with get_audio_duration (414-430)
GetAudioDuration ==
    /\ jpc = "start"
    /\ audio_exists
    /\ \E d \in ProbeResults : audio_duration' = d
    /\ jpc' = "probed"
    /\ UNCHANGED <<audio_exists, output_file, marker_every, split_calls,
                   dir_files, chunk_paths, uploads, transcripts,
                   full_transcript, removed, transcript, job_outcome,
                   returned, files_written, outsideJob>>

\* lines 449-454 with split_audio_ffmpeg (49-111).  A failing ffmpeg may have
\* written some of the segments; the list is then empty and the job returns
\* None.
SplitAudioFfmpeg ==
    /\ jpc = "probed"
    /\ ShouldSplit(audio_duration)
    /\ LET n == NumChunks(audio_duration[1], ChunkDurationSeconds) IN
       \E ok \in BOOLEAN, written \in 0..n :
          /\ ok => written = n
          /\ ~ok => written < n
          /\ split_calls' = Append(split_calls,
                 [segment_time |-> ChunkDurationSeconds, ok |-> ok])
          /\ dir_files' = dir_files \cup (0..(written - 1))
          /\ chunk_paths' = IF ok THEN Sorted(dir_files') ELSE <<>>
          /\ IF chunk_paths' = <<>>
             THEN /\ returned' = <<>>
                  /\ job_outcome' = "failed"
                  /\ jpc' = "done"
             ELSE /\ jpc' = "chunks"
                  /\ UNCHANGED <<returned, job_outcome>>
    /\ UNCHANGED <<audio_exists, output_file, marker_every, audio_duration,
                   uploads, transcripts, full_transcript, removed, transcript,
                   files_written, outsideJob>>

\* lines 346-357, one iteration, with transcribe_chunk (322-336)
TranscribeChunk ==
    /\ jpc = "chunks"
    /\ Len(transcripts) < Len(chunk_paths)
    /\ \E response \in ApiResponses :
          LET t == TranscribeResult(response) IN
          /\ uploads' = Append(uploads,
                 ChunkFile(chunk_paths[Len(transcripts) + 1]))
          /\ transcripts' = Append(transcripts, t)
          /\ full_transcript' = AppendTranscript(full_transcript, t)
    /\ UNCHANGED <<jpc, audio_exists, output_file, marker_every,
                   audio_duration, split_calls, dir_files, chunk_paths,
                   removed, transcript, job_outcome, returned, files_written,
                   outsideJob>>

\* mutant: the transcript is assembled while chunks are still waiting
CombineChunks_Early ==
    /\ jpc = "chunks"
    /\ Len(transcripts) <= Len(chunk_paths)
    /\ transcript' = CombineTranscripts(full_transcript, marker_every)
    /\ jpc' = "cleanup"
    /\ UNCHANGED <<audio_exists, output_file, marker_every, audio_duration,
                   split_calls, dir_files, chunk_paths, uploads, transcripts,
                   full_transcript, removed, job_outcome, returned,
                   files_written, outsideJob>>

\* lines 359-394, transcribe_audio_chunks returns
CombineChunks ==
    /\ jpc = "chunks"
    /\ Len(transcripts) = Len(chunk_paths)
    /\ transcript' = CombineTranscripts(full_transcript, marker_every)
    /\ jpc' = "cleanup"
    /\ UNCHANGED <<audio_exists, output_file, marker_every, audio_duration,
                   split_calls, dir_files, chunk_paths, uploads, transcripts,
                   full_transcript, removed, job_outcome, returned,
                   files_written, outsideJob>>

\* mutant: a failing os.remove ends the loop
RemoveChunk_StopsAtFailure ==
    /\ jpc = "cleanup"
    /\ removed < Len(chunk_paths)
    /\ \E ok \in BOOLEAN :
          /\ dir_files' = IF ok THEN dir_files \ {chunk_paths[removed + 1]}
                          ELSE dir_files
          /\ jpc' = IF ok THEN jpc ELSE "transcribed"
    /\ removed' = removed + 1
    /\ UNCHANGED <<audio_exists, output_file, marker_every,
                   audio_duration, split_calls, chunk_paths, uploads,
                   transcripts, full_transcript, transcript, job_outcome,
                   returned, files_written, outsideJob>>

\* lines 460-464, one iteration: os.remove may fail, which is ignored
RemoveChunk ==
    /\ jpc = "cleanup"
    /\ removed < Len(chunk_paths)
    /\ \E ok \in BOOLEAN :
          dir_files' = IF ok THEN dir_files \ {chunk_paths[removed + 1]}
                       ELSE dir_files
    /\ removed' = removed + 1
    /\ UNCHANGED <<jpc, audio_exists, output_file, marker_every,
                   audio_duration, split_calls, chunk_paths, uploads,
                   transcripts, full_transcript, transcript, job_outcome,
                   returned, files_written, outsideJob>>

\* lines 466-471: os.rmdir, whose failure is ignored
RemoveChunksDir ==
    /\ jpc = "cleanup"
    /\ removed = Len(chunk_paths)
    /\ jpc' = "transcribed"
    /\ UNCHANGED <<audio_exists, output_file, marker_every, audio_duration,
                   split_calls, dir_files, chunk_paths, uploads, transcripts,
                   full_transcript, removed, transcript, job_outcome,
                   returned, files_written, outsideJob>>

\* lines 472-474 with transcribe_short_audio (396-412)
TranscribeShortAudio ==
    /\ jpc = "probed"
    /\ ~ShouldSplit(audio_duration)
    /\ \E response \in ApiResponses : transcript' = TranscribeResult(response)
    /\ uploads' = Append(uploads, OriginalFile)
    /\ jpc' = "transcribed"
    /\ UNCHANGED <<audio_exists, output_file, marker_every, audio_duration,
                   split_calls, dir_files, chunk_paths, transcripts,
                   full_transcript, removed, job_outcome, returned,
                   files_written, outsideJob>>

\* lines 476-506: "Transcription completed successfully!", both files
\* written when an output file was named, the transcript returned
ReturnTranscript ==
    /\ jpc = "transcribed"
    /\ transcript # <<>>
    /\ job_outcome' = "success"
    /\ files_written' = IF output_file THEN {"hindi", "roman"} ELSE {}
    /\ returned' = <<transcript>>
    /\ jpc' = "done"
    /\ UNCHANGED <<audio_exists, output_file, marker_every, audio_duration,
                   split_calls, dir_files, chunk_paths, uploads, transcripts,
                   full_transcript, removed, transcript, outsideJob>>

\* lines 507-509
ReturnNone ==
    /\ jpc = "transcribed"
    /\ transcript = <<>>
    /\ job_outcome' = "failed"
    /\ returned' = <<>>
    /\ jpc' = "done"
    /\ UNCHANGED <<audio_exists, output_file, marker_every, audio_duration,
                   split_calls, dir_files, chunk_paths, uploads, transcripts,
                   full_transcript, removed, transcript, files_written,
                   outsideJob>>

JobNext ==
    \/ FileNotFound
    \/ GetAudioDuration
    \/ SplitAudioFfmpeg
    \/ TranscribeChunk
    \/ CombineChunks
    \/ RemoveChunk
    \/ RemoveChunksDir
    \/ TranscribeShortAudio
    \/ ReturnTranscript
    \/ ReturnNone

-----------------------------------------------------------------------------
(***************************************************************************)
(* sarvam_batch_stt.py main (406-428): split_audio_if_needed,              *)
(* process_batch_transcription and the removal of the chunk files.         *)
(***************************************************************************)

\* sarvam_batch_stt.py:23
MaxDurationMs == 60 * 60 * 1000

\* what get_audio_duration_ms can return: 0 on any error
BatchDurations ==
    {0, MaxDurationMs - 1, MaxDurationMs, MaxDurationMs + 1}
    \cup { MaxDurationMs * k : k \in 2..MaxAudioChunks }

\* the list [audio_path]
OriginalOnly == [kind |-> "original", chunks |-> <<>>]

NoPlan == [kind |-> "none", chunks |-> <<>>]

\* len(audio_paths)
PlanLen(plan) == IF plan.kind = "original" THEN 1 ELSE Len(plan.chunks)

\* the calls of process_batch_transcription that can raise, in code order
ProcessSteps == <<"create_job", "upload_files", "start", "wait_until_complete",
                  "is_failed", "download_outputs", "parse_transcription_results">>

BatchIdle ==
    /\ bpc = "idle" /\ caller = "main" /\ duration_ms = 0
    /\ batch_split_calls = <<>>
    /\ batch_dir_files = {} /\ audio_paths = NoPlan /\ steps = <<>>
    /\ results = "none" /\ batch_removed = 0

\* line 41
BatchInit ==
    /\ bpc = "start"
    /\ caller \in {"main", "streamlit"}
    /\ duration_ms \in BatchDurations
    /\ batch_split_calls = <<>>
    /\ batch_dir_files \in Leftovers
    /\ audio_paths = NoPlan /\ steps = <<>>
    /\ results = "none" /\ batch_removed = 0

\* mutant: an audio of exactly the maximum is split
SplitNeeded_AtMaximum(ms) == ms >= MaxDurationMs

\* line 43, negated
SplitNeeded(ms) == ~(ms <= MaxDurationMs)

\* lines 43-44
SplitNotNeeded ==
    /\ bpc = "start"
    /\ ~SplitNeeded(duration_ms)
    /\ audio_paths' = OriginalOnly
    /\ bpc' = "planned"
    /\ UNCHANGED <<caller, duration_ms, batch_split_calls, batch_dir_files, steps,
                   results, batch_removed, outsideBatch>>

\* lines 46-81: a failing ffmpeg may have written some of the segments; the
\* plan is then the original file
SplitIntoChunks ==
    /\ bpc = "start"
    /\ SplitNeeded(duration_ms)
    /\ LET n == NumChunks(duration_ms, MaxDurationMs) IN
       \E ok \in BOOLEAN, written \in 0..n :
          /\ ok => written = n
          /\ ~ok => written < n
          /\ batch_split_calls' = Append(batch_split_calls,
                 [segment_time |-> MaxDurationMs \div 1000, ok |-> ok])
          /\ batch_dir_files' = batch_dir_files \cup (0..(written - 1))
          /\ audio_paths' = IF ok
                            THEN [kind |-> "chunks",
                                  chunks |-> Sorted(batch_dir_files')]
                            ELSE OriginalOnly
    /\ bpc' = "planned"
    /\ UNCHANGED <<caller, duration_ms, steps, results, batch_removed, outsideBatch>>

\* mutant: a job reported as failed does not end the function
ProcessStep_ContinuesAfterFailedJob ==
    /\ bpc = "planned"
    /\ Len(steps) < Len(ProcessSteps)
    /\ LET step == ProcessSteps[Len(steps) + 1] IN
       \E o \in {"returned", "raised", "job_failed"} :
          /\ o = "job_failed" => step = "is_failed"
          /\ steps' = Append(steps, step)
          /\ IF o = "raised"
             THEN results' = "exception" /\ bpc' = "processed"
             ELSE IF o = "job_failed"
             THEN results' = "job_failed" /\ UNCHANGED bpc
             ELSE IF Len(steps') = Len(ProcessSteps)
             THEN results' = "success" /\ bpc' = "processed"
             ELSE UNCHANGED <<results, bpc>>
    /\ UNCHANGED <<caller, duration_ms, batch_split_calls, batch_dir_files,
                   audio_paths, batch_removed, outsideBatch>>

\* lines 88-144: the next call of process_batch_transcription.  It returns
\* normally, raises (caught on line 142), or, for is_failed, reports a
\* failed job (lines 123-125).
ProcessStep ==
    /\ bpc = "planned"
    /\ Len(steps) < Len(ProcessSteps)
    /\ LET step == ProcessSteps[Len(steps) + 1] IN
       \E o \in {"returned", "raised", "job_failed"} :
          /\ o = "job_failed" => step = "is_failed"
          /\ steps' = Append(steps, step)
          /\ IF o = "raised"
             THEN results' = "exception" /\ bpc' = "processed"
             ELSE IF o = "job_failed"
             THEN results' = "job_failed" /\ bpc' = "processed"
             ELSE IF Len(steps') = Len(ProcessSteps)
             THEN results' = "success" /\ bpc' = "processed"
             ELSE UNCHANGED <<results, bpc>>
    /\ UNCHANGED <<caller, duration_ms, batch_split_calls, batch_dir_files,
                   audio_paths, batch_removed, outsideBatch>>

\* Path("batch_chunks").exists(): made by this job's split or left by an
\* earlier one
BatchDirExists == batch_split_calls # <<>> \/ batch_dir_files # {}

\* sarvam_batch_stt.py:418; streamlit_app.py:341 tests the length alone
CleanupNeeded ==
    /\ PlanLen(audio_paths) > 1
    /\ caller = "main" => BatchDirExists

\* line 418, condition false
SkipCleanup ==
    /\ bpc = "processed"
    /\ ~CleanupNeeded
    /\ bpc' = "done"
    /\ UNCHANGED <<caller, duration_ms, batch_split_calls, batch_dir_files,
                   audio_paths, steps, results, batch_removed, outsideBatch>>

\* lines 420-424, one iteration
RemoveBatchChunk ==
    /\ bpc = "processed"
    /\ CleanupNeeded
    /\ batch_removed < PlanLen(audio_paths)
    /\ \E ok \in BOOLEAN :
          batch_dir_files' =
              IF ok THEN batch_dir_files \ {audio_paths.chunks[batch_removed + 1]}
              ELSE batch_dir_files
    /\ batch_removed' = batch_removed + 1
    /\ UNCHANGED <<bpc, caller, duration_ms, batch_split_calls, audio_paths, steps,
                   results, outsideBatch>>

\* lines 425-428
RemoveBatchDir ==
    /\ bpc = "processed"
    /\ CleanupNeeded
    /\ batch_removed = PlanLen(audio_paths)
    /\ bpc' = "done"
    /\ UNCHANGED <<caller, duration_ms, batch_split_calls, batch_dir_files,
                   audio_paths, steps, results, batch_removed, outsideBatch>>

BatchNext ==
    \/ SplitNotNeeded
    \/ SplitIntoChunks
    \/ ProcessStep
    \/ SkipCleanup
    \/ RemoveBatchChunk
    \/ RemoveBatchDir

-----------------------------------------------------------------------------
(***************************************************************************)
(* improve_speaker_consistency (sarvam_batch_stt.py:146-190) applied to    *)
(* the list it returned.                                                   *)
(***************************************************************************)

ReapplySpeakers == {"SPEAKER_00", "SPEAKER_01"}

ReapplyIdle ==
    /\ apc = "idle" /\ segments = <<>> /\ once = <<>> /\ twice = <<>>

ReapplyInit ==
    /\ apc = "given"
    /\ \E n \in 0..MaxReapplied :
         \E spk \in [1..n -> ReapplySpeakers], dur \in [1..n -> ParseDurations],
            gap \in [2..n -> ParseGaps] :
            segments = BuildEntries(spk, dur, gap, n)
    /\ once = <<>>
    /\ twice = <<>>

\* the first call
ApplyOnce ==
    /\ apc = "given"
    /\ once' = ImproveSpeakerConsistency(segments)
    /\ apc' = "applied"
    /\ UNCHANGED <<segments, twice, outsideReapply>>

\* the call on the returned list
ApplyAgain ==
    /\ apc = "applied"
    /\ twice' = ImproveSpeakerConsistency(once)
    /\ apc' = "reapplied"
    /\ UNCHANGED <<segments, once, outsideReapply>>

ReapplyNext == ApplyOnce \/ ApplyAgain

-----------------------------------------------------------------------------
InitRefine == RefineInit /\ TranslitIdle /\ ParseIdle /\ JobIdle /\ BatchIdle /\ ReapplyIdle

SpecRefine == InitRefine /\ [][RefineNext]_vars

InitTranslit == TranslitInit /\ RefineIdle /\ ParseIdle /\ JobIdle /\ BatchIdle /\ ReapplyIdle

SpecTranslit == InitTranslit /\ [][TranslitNext]_vars

InitParse == ParseInit /\ RefineIdle /\ TranslitIdle /\ JobIdle /\ BatchIdle /\ ReapplyIdle

SpecParse == InitParse /\ [][ParseNext]_vars

\* one job: of sarvam_stt.py, or of sarvam_batch_stt.py
InitJobs ==
    /\ RefineIdle /\ TranslitIdle /\ ParseIdle /\ ReapplyIdle
    /\ \/ JobInit /\ BatchIdle
       \/ BatchInit /\ JobIdle

JobsNext == JobNext \/ BatchNext

SpecJobs == InitJobs /\ [][JobsNext]_vars

\* where the thread of transcribe_audio stands: the statement it is at, the
\* chunks it has uploaded and the deletions it has attempted
jobPosition == <<jpc, uploads, removed>>

\* The thread moves to its next position: the control flow of lines 432-509
\* (and of the loops of lines 346-357 and 460-464) without the values the
\* calls give back.  Each step of JobNext is such a step.
JobRuns ==
    \/ /\ jpc = "start"
       /\ jpc' \in {"probed", "done"}
       /\ UNCHANGED <<uploads, removed>>
    \/ /\ jpc = "probed"
       /\ \/ jpc' \in {"chunks", "done"} /\ UNCHANGED uploads
          \/ jpc' = "transcribed" /\ uploads' = Append(uploads, OriginalFile)
       /\ UNCHANGED removed
    \/ /\ jpc = "chunks"
       /\ IF Len(uploads) < Len(chunk_paths)
          THEN /\ uploads'
                    = Append(uploads, ChunkFile(chunk_paths[Len(uploads) + 1]))
               /\ UNCHANGED jpc
          ELSE jpc' = "cleanup" /\ UNCHANGED uploads
       /\ UNCHANGED removed
    \/ /\ jpc = "cleanup"
       /\ IF removed < Len(chunk_paths)
          THEN removed' = removed + 1 /\ UNCHANGED jpc
          ELSE jpc' = "transcribed" /\ UNCHANGED removed
       /\ UNCHANGED uploads
    \/ /\ jpc = "transcribed"
       /\ jpc' = "done"
       /\ UNCHANGED <<uploads, removed>>

\* one call of transcribe_audio, the batch program idle
InitJobsLive ==
    /\ RefineIdle /\ TranslitIdle /\ ParseIdle /\ ReapplyIdle
    /\ JobInit /\ BatchIdle

\* The program is one thread and transcribe_audio has no loop but the two
\* over the chunk list: as long as the call has not returned its next
\* statement is eventually executed, every external call (ffprobe, ffmpeg,
\* the service, the file system) being taken to return.
SpecJobsLive == InitJobsLive /\ [][JobNext]_vars /\ WF_jobPosition(JobRuns)

InitReapply ==
    ReapplyInit /\ RefineIdle /\ TranslitIdle /\ ParseIdle /\ JobIdle /\ BatchIdle

SpecReapply == InitReapply /\ [][ReapplyNext]_vars

-----------------------------------------------------------------------------
(***************************************************************************)
(* Properties of improve_speaker_consistency (under SpecRefine)            *)
(***************************************************************************)

Returned == rpc = "returned"

Refined == Returned /\ Len(input) >= 3

Gap(es, k) == es[k].start_time_seconds - es[k-1].end_time_seconds

SameSpeaker(es) == \A j, k \in 1..Len(es) : es[j].speaker_id = es[k].speaker_id

\* k is the first segment of a run: the first segment, a change of speaker,
\* or more than 3 s after the end of segment k-1
NewRunAt(es, k) ==
    \/ k = 1
    \/ es[k].speaker_id # es[k-1].speaker_id
    \/ Gap(es, k) > 3

RunStarts(es) == { k \in 1..Len(es) : NewRunAt(es, k) }

\* the last segment of the run that starts at b
RunEnd(es, b) ==
    CHOOSE j \in b..Len(es) :
        /\ \A k \in (b + 1)..j : ~NewRunAt(es, k)
        /\ j = Len(es) \/ NewRunAt(es, j + 1)

\* the first segment of the m-th run
RunStart(es, m) ==
    CHOOSE b \in RunStarts(es) : Cardinality({ k \in RunStarts(es) : k <= b }) = m

RECURSIVE JoinTranscripts(_, _, _)
JoinTranscripts(es, b, j) ==
    IF j = b THEN es[b].transcript
    ELSE JoinTranscripts(es, b, j - 1) \o <<" ">> \o es[j].transcript

\* C5: Pass 1 relabels an interior segment i to the speaker of segment i-1
\* exactly when it lasts less than 2 s, segments i-1 and i+1 have the same
\* speaker and segment i has another one (the labels being those in place when
\* segment i is examined: segment i-1 as already processed, segments i and i+1
\* as received); the first and the last segment, and every other field, are
\* left alone; a segment of exactly 2 s is not relabelled.
C5_Pass1Rule ==
    (rpc \in {"reassigned", "returned"} /\ Len(input) >= 3) =>
        LET n == Len(input) IN
        /\ Len(entries) = n
        /\ entries[1] = input[1]
        /\ entries[n] = input[n]
        /\ \A i \in 2..(n - 1) :
             LET relabel ==
                   /\ input[i].end_time_seconds - input[i].start_time_seconds < 2
                   /\ entries[i-1].speaker_id = input[i+1].speaker_id
                   /\ input[i].speaker_id # entries[i-1].speaker_id
             IN  entries[i] = IF relabel
                              THEN [input[i] EXCEPT !.speaker_id = entries[i-1].speaker_id]
                              ELSE input[i]

\* C5 witness: one interior segment was relabelled while another, of exactly
\* 2 s between two segments of one other speaker, kept its label.
C5_Witness ==
    /\ rpc = "reassigned"
    /\ \E i \in 2..(Len(input) - 1) : entries[i].speaker_id # input[i].speaker_id
    /\ \E j \in 2..(Len(input) - 1) :
         /\ input[j].end_time_seconds - input[j].start_time_seconds = 2
         /\ entries[j-1].speaker_id = input[j+1].speaker_id
         /\ input[j].speaker_id # entries[j-1].speaker_id
         /\ entries[j].speaker_id = input[j].speaker_id

\* C6: Pass 2 starts a new merged segment exactly at the first segment, at a
\* change of speaker and at a gap of more than 3 s (a gap of exactly 3 s
\* merges); a merged segment has the speaker and start of the first segment of
\* its run, the end of the last one and the run's texts joined by single
\* spaces.  Two same-speaker segments more than 3 s apart never share an
\* output segment, also in a two-segment input.
C6_Pass2Rule ==
    /\ Refined =>
         /\ Len(merged_entries) = Cardinality(RunStarts(entries))
         /\ \A m \in 1..Len(merged_entries) :
              LET b == RunStart(entries, m)
                  j == RunEnd(entries, b)
              IN  merged_entries[m] =
                      Entry(entries[b].speaker_id, JoinTranscripts(entries, b, j),
                            entries[b].start_time_seconds, entries[j].end_time_seconds)
    /\ (Returned /\ Len(input) = 2 /\ Gap(input, 2) > 3) => Len(merged_entries) = 2

\* C6 witness: a returned result in which a same-speaker gap of exactly 3 s
\* was merged and a same-speaker gap of more than 3 s was kept apart.
C6_Witness ==
    /\ Refined
    /\ \E k \in 2..Len(entries) :
         entries[k].speaker_id = entries[k-1].speaker_id /\ Gap(entries, k) = 3
    /\ \E k \in 2..Len(entries) :
         entries[k].speaker_id = entries[k-1].speaker_id /\ Gap(entries, k) > 3
    /\ Len(merged_entries) = Len(entries) - 1

\* C7: an input of fewer than 3 segments is returned unchanged: no segment is
\* relabelled and none is merged.
C7_ShortInputIdentity ==
    (Returned /\ Len(input) < 3) => (merged_entries = input /\ entries = input)

\* C7 witness: two segments of one speaker, close enough to be merged by
\* pass 2, are returned as two segments.
C7_Witness ==
    /\ Returned
    /\ Len(input) = 2
    /\ input[1].speaker_id = input[2].speaker_id
    /\ Gap(input, 2) <= 3
    /\ Len(merged_entries) = 2

C9_IsolatedShortSegment ==
    ( /\ Returned
      /\ Len(input) = 3
      /\ input[1].speaker_id = input[3].speaker_id
      /\ input[2].speaker_id # input[1].speaker_id
      /\ input[2].end_time_seconds - input[2].start_time_seconds < 2
      /\ Gap(input, 2) <= 3
      /\ Gap(input, 3) <= 3 )
    => merged_entries =
         << Entry(input[1].speaker_id,
                  input[1].transcript \o <<" ">> \o input[2].transcript
                                      \o <<" ">> \o input[3].transcript,
                  input[1].start_time_seconds, input[3].end_time_seconds) >>

\* C9 witness: the scenario has run to its end.
C9_Witness ==
    /\ Returned
    /\ Len(input) = 3
    /\ input[1].speaker_id = input[3].speaker_id
    /\ input[2].speaker_id # input[1].speaker_id
    /\ input[2].end_time_seconds - input[2].start_time_seconds < 2
    /\ Gap(input, 2) = 3
    /\ Gap(input, 3) = 3
    /\ Len(merged_entries) = 1

\* C10 (as claimed): every non-empty input whose segments all have the same
\* speaker comes back as exactly one merged segment.
C10_SingleSpeakerOneSegment ==
    (Returned /\ Len(input) >= 1 /\ SameSpeaker(input)) => Len(merged_entries) = 1

\* C10 (amended): the call always runs to its return; a single-speaker input
\* of one segment, or of at least 3 segments none of which starts more than
\* 3 s after the end of the one before, comes back as exactly one segment,
\* from the first start to the last end.
C10_SingleSpeakerNoLongGap ==
    /\ ~Returned => ENABLED RefineNext
    /\ ( /\ Returned
         /\ SameSpeaker(input)
         /\ Len(input) = 1 \/ Len(input) >= 3
         /\ \A k \in 2..Len(input) : Gap(input, k) <= 3 )
       => /\ Len(merged_entries) = 1
          /\ merged_entries[1].speaker_id = input[1].speaker_id
          /\ merged_entries[1].start_time_seconds = input[1].start_time_seconds
          /\ merged_entries[1].end_time_seconds = input[Len(input)].end_time_seconds

\* C10 witness: a single-speaker input of more than 3 segments, one gap of
\* exactly 3 s, returned as one segment.
C10_Witness ==
    /\ Returned
    /\ Len(input) > 3
    /\ SameSpeaker(input)
    /\ \A k \in 2..Len(input) : Gap(input, k) <= 3
    /\ \E k \in 2..Len(input) : Gap(input, k) = 3
    /\ Len(merged_entries) = 1

\* C17: pass 1 works in place from left to right: when segment i has been
\* relabelled, the test for segment i+1 reads the new label of segment i as
\* its previous neighbour.  For speakers [A, B(short), A(short), B] only the
\* second segment is relabelled (a pass over the labels as received would
\* relabel the third as well).
C17_Pass1InPlace ==
    (rpc \in {"reassigned", "returned"} /\ Len(input) >= 4) =>
        /\ \A i \in 2..(Len(input) - 2) :
             entries[i].speaker_id # input[i].speaker_id =>
                ( entries[i+1].speaker_id # input[i+1].speaker_id
                  <=> /\ input[i+1].end_time_seconds - input[i+1].start_time_seconds < 2
                      /\ entries[i].speaker_id = input[i+2].speaker_id
                      /\ input[i+1].speaker_id # entries[i].speaker_id )
        /\ ( /\ Len(input) = 4
             /\ input[1].speaker_id # input[2].speaker_id
             /\ input[3].speaker_id = input[1].speaker_id
             /\ input[4].speaker_id = input[2].speaker_id
             /\ input[2].end_time_seconds - input[2].start_time_seconds < 2
             /\ input[3].end_time_seconds - input[3].start_time_seconds < 2 )
           => /\ entries[2].speaker_id = input[1].speaker_id
              /\ entries[3].speaker_id = input[3].speaker_id
              /\ entries[1] = input[1]
              /\ entries[4] = input[4]

\* C17 witness: the [A, B(short), A(short), B] input after pass 1, the second
\* segment relabelled and the third not.
C17_Witness ==
    /\ rpc = "reassigned"
    /\ Len(input) = 4
    /\ input[1].speaker_id # input[2].speaker_id
    /\ input[3].speaker_id = input[1].speaker_id
    /\ input[4].speaker_id = input[2].speaker_id
    /\ input[2].end_time_seconds - input[2].start_time_seconds < 2
    /\ input[3].end_time_seconds - input[3].start_time_seconds < 2
    /\ entries[2].speaker_id = input[1].speaker_id
    /\ entries[3].speaker_id = input[3].speaker_id

Alternating(es) == \A k \in 2..Len(es) : es[k].speaker_id # es[k-1].speaker_id

\* C19 (as claimed): an input of at least 3 segments in which every segment's
\* speaker differs from the one before comes back with no segment relabelled
\* and the same length, labels, texts and times.
C19_AlternatingIdentity ==
    (Returned /\ Len(input) >= 3 /\ Alternating(input)) =>
        (entries = input /\ merged_entries = input)

\* C19 (amended): the same, for inputs in which no interior segment is both
\* shorter than 2 s and placed between two segments of one speaker.
C19_AlternatingNoIsolatedShort ==
    ( /\ Returned
      /\ Len(input) >= 3
      /\ Alternating(input)
      /\ \A i \in 2..(Len(input) - 1) :
            \/ input[i].end_time_seconds - input[i].start_time_seconds >= 2
            \/ input[i-1].speaker_id # input[i+1].speaker_id )
    => (entries = input /\ merged_entries = input)

\* C19 witness: an alternating input with a short interior segment between
\* two different speakers and a 2 s interior segment between segments of one
\* speaker, returned as it was.
C19_Witness ==
    /\ Returned
    /\ Len(input) >= 4
    /\ Alternating(input)
    /\ \E i \in 2..(Len(input) - 1) :
         /\ input[i].end_time_seconds - input[i].start_time_seconds < 2
         /\ input[i-1].speaker_id # input[i+1].speaker_id
    /\ \E i \in 2..(Len(input) - 1) :
         /\ input[i].end_time_seconds - input[i].start_time_seconds = 2
         /\ input[i-1].speaker_id = input[i+1].speaker_id
    /\ merged_entries = input

\* the texts of es joined with single spaces, in order
RECURSIVE JoinedText(_)
JoinedText(es) ==
    IF es = <<>> THEN <<>>
    ELSE IF Len(es) = 1 THEN es[1].transcript
    ELSE es[1].transcript \o <<" ">> \o JoinedText(Tail(es))

\* C27: the output has at most as many segments as the input, its texts
\* joined with single spaces are the input's texts joined with single spaces,
\* and every output speaker label occurs in the input.
C27_TextConservation ==
    Returned =>
        /\ Len(merged_entries) <= Len(input)
        /\ JoinedText(merged_entries) = JoinedText(input)
        /\ \A k \in 1..Len(merged_entries) :
              \E j \in 1..Len(input) :
                 merged_entries[k].speaker_id = input[j].speaker_id

\* C27 witness: a returned call that relabelled a segment and merged
\* segments, with several output segments left.
C27_Witness ==
    /\ Returned
    /\ Len(merged_entries) >= 2
    /\ Len(merged_entries) < Len(input)
    /\ \E k \in 1..Len(input) : entries[k].speaker_id # input[k].speaker_id
    /\ JoinedText(merged_entries) = JoinedText(input)

\* two adjacent segments of one speaker at most 3 s apart
Coalescible(es) ==
    \E k \in 2..Len(es) :
        /\ es[k].speaker_id = es[k-1].speaker_id
        /\ es[k].start_time_seconds - es[k-1].end_time_seconds <= 3

\* C28 (as claimed): for every input, of any length, the output has no two
\* adjacent segments of the same speaker whose gap is at most 3 s.
C28_CoalescingComplete == Returned => ~Coalescible(merged_entries)

\* C28 (amended): the same for inputs of at least 3 segments (and trivially
\* of at most 1); an input of 2 segments is returned as it is.
C28_CoalescingCompleteFrom3 ==
    /\ (Returned /\ Len(input) # 2) => ~Coalescible(merged_entries)
    /\ (Returned /\ Len(input) = 2) => merged_entries = input

\* C28 witness: a returned call on an input of at least 3 segments that had
\* adjacent same-speaker segments at most 3 s apart, and whose output still
\* has adjacent segments of one speaker (more than 3 s apart).
C28_Witness ==
    /\ Returned
    /\ Len(input) >= 3
    /\ Coalescible(input)
    /\ \E k \in 2..Len(merged_entries) :
         merged_entries[k].speaker_id = merged_entries[k-1].speaker_id
    /\ ~Coalescible(merged_entries)

\* C29: for an input ordered by start with end >= start in each segment, the
\* output is ordered by start and each output segment has end >= start.
C29_OutputWellFormed ==
    ( /\ Returned
      /\ \A k \in 1..Len(input) :
            input[k].end_time_seconds >= input[k].start_time_seconds
      /\ \A k \in 2..Len(input) :
            input[k].start_time_seconds >= input[k-1].start_time_seconds )
    => /\ \A k \in 1..Len(merged_entries) :
             merged_entries[k].end_time_seconds
                >= merged_entries[k].start_time_seconds
       /\ \A k \in 2..Len(merged_entries) :
             merged_entries[k].start_time_seconds
                >= merged_entries[k-1].start_time_seconds

\* C29 witness: a returned call that merged a segment into one that started
\* at the same time and ended later, with several output segments.
C29_Witness ==
    /\ Returned
    /\ Len(input) >= 3
    /\ Len(merged_entries) >= 2
    /\ Len(merged_entries) < Len(input)
    /\ \E k \in 2..Len(input) :
         /\ input[k].start_time_seconds = input[k-1].start_time_seconds
         /\ input[k].end_time_seconds < input[k-1].end_time_seconds
         /\ entries[k].speaker_id = entries[k-1].speaker_id

-----------------------------------------------------------------------------
(***************************************************************************)
(* Properties of transliterate_to_roman (under SpecTranslit)               *)
(***************************************************************************)

Done == tpc = "done"

\* the call took the multi-chunk path and its chunking loop has ended
Chunked == tpc \in {"translit", "done"} /\ chunks # <<>>

\* the text contains the 11 characters <LINEBREAK> themselves
HasLiteralLinebreak(t) ==
    \E i \in 1..Len(t) : SubSeq(t, i, Min(i + 10, Len(t))) = LINEBREAK

HasLineBreak(t) == \E i \in 1..Len(t) : t[i] = NL

\* what the service calls of a finished run must have returned, per call
ExpectedResults ==
    [k \in 1..Len(calls) |->
        IF call_failed[k] THEN calls[k] ELSE ServiceResult(service, calls[k])]

\* C1: every chunk emitted by the chunking loop is non-empty (so each
\* iteration moves the cursor forward and the loop ends), the chunks emitted so
\* far concatenate to the text before the cursor, and when the loop has ended
\* the chunks concatenate to the whole padded text.
C1_ChunkerRoundTrip ==
    /\ \A k \in 1..Len(chunks) : chunks[k] # <<>>
    /\ tpc = "split" =>
         /\ start <= Len(text_with_placeholders)
         /\ Concat(chunks) = Slice(text_with_placeholders, 0, start)
    /\ Chunked => Concat(chunks) = text_with_placeholders

\* C1 witness: the loop has ended with at least 3 chunks, one of them cut at
\* a break character before the naive end.
C1_Witness ==
    /\ tpc = "translit"
    /\ Len(chunks) >= 3
    /\ \E k \in 1..(Len(chunks) - 1) : Len(chunks[k]) < max_chunk_size
    /\ Concat(chunks) = text_with_placeholders

\* C2 (as claimed): no chunk is longer than max_size characters.
C2_ChunkSizeBound ==
    \A k \in 1..Len(chunks) : Len(chunks[k]) <= max_chunk_size

\* C3 (as claimed): with the identity service, a non-empty text containing
\* line breaks is returned unchanged, on the single-call and on the
\* multi-chunk path.
C3_PlaceholderRoundTrip ==
    (Done /\ service = "identity" /\ text # <<>> /\ HasLineBreak(text)) => result = text

\* C4, first part: each failed call's own input stands at its position, every
\* chunk is sent (in order), the call runs to its return, and the output is
\* the sentinel-restored concatenation of the per-chunk results.
C4_FailureSubstitution ==
    /\ ~Done => ENABLED TranslitNext
    /\ (Done /\ ~SkipTransliteration(text)) =>
         /\ calls = IF chunks = <<>> THEN <<text_with_placeholders>> ELSE chunks
         /\ Len(call_failed) = Len(calls)
         /\ result = Restore(Concat(ExpectedResults))

\* C4, second part: if every call failed, the output is the original text.
C4_AllFailedGivesOriginal ==
    (Done /\ ~SkipTransliteration(text) /\ \A k \in 1..Len(call_failed) : call_failed[k])
        => result = text

\* C4 (as claimed): the failure policy, with its consequence that the output
\* equals the original text when every chunk fails.
C4_FailurePolicy == C4_FailureSubstitution /\ C4_AllFailedGivesOriginal

\* C11: a text that is None, empty or starts with [Error: is returned as it
\* is, and the transliteration service is never called for it.
C11_PassThroughWithoutCalls ==
    ( \/ text = NoneText
      \/ text = <<>>
      \/ (Len(text) >= 7 /\ SubSeq(text, 1, 7) = <<"[", "E", "r", "r", "o", "r", ":">>) )
    => /\ calls = <<>>
       /\ tpc \in {"entry", "done"}
       /\ Done => result = text

\* C11 witness: an error-flagged text with more text after the flag has been
\* returned unchanged without a call.
C11_Witness ==
    /\ Done
    /\ StartsWith(text, ErrorFlag)
    /\ Len(text) > Len(ErrorFlag)
    /\ result = text
    /\ calls = <<>>

\* 0-based index in the padded text at which chunk k starts
ChunkStart(k) == Len(Concat(SubSeq(chunks, 1, k - 1)))

\* the padded text has a break character at 0-based index i, or the marker
\* <LINEBREAK> begins there
BreakableAt(i) ==
    LET s == text_with_placeholders IN
    \/ s[i + 1] \in {" ", ".", "!", "?", ","}
    \/ SubSeq(s, i + 1, Min(i + 11, Len(s))) =
          <<"<", "L", "I", "N", "E", "B", "R", "E", "A", "K", ">">>

\* length of chunk k if it ends right after the greatest breakable index in
\* from..end, or at end when there is none
LengthCutIn(k, from) ==
    LET st   == ChunkStart(k)
        end  == st + max_chunk_size
        hits == { i \in from..end : BreakableAt(i) }
    IN  IF hits = {} THEN max_chunk_size
        ELSE (CHOOSE i \in hits : \A j \in hits : j <= i) + 1 - st

\* chunk k was cut by the break-point scan (its naive end lies inside the text)
ScannedChunk(k) == ChunkStart(k) + max_chunk_size < Len(text_with_placeholders)

\* C18 (as claimed): a non-final chunk ends right after the greatest index i
\* with max(start, end - look-back) <= i <= end that is breakable, and at end
\* when there is none.
C18_BreakPointInclusive ==
    \A k \in 1..Len(chunks) :
        ScannedChunk(k) =>
            LET st == ChunkStart(k)
            IN  Len(chunks[k]) =
                  LengthCutIn(k, Max(st, st + max_chunk_size - scan_back))

\* C18 (amended): the same with max(start, end - look-back) < i <= end: the
\* index max(start, end - look-back) itself is not examined.  The chosen index
\* is at or before end, so the chunk ends at or before end + 1.
C18_BreakPointExclusive ==
    \A k \in 1..Len(chunks) :
        ScannedChunk(k) =>
            LET st == ChunkStart(k)
            IN  /\ Len(chunks[k]) =
                     LengthCutIn(k, Max(st, st + max_chunk_size - scan_back) + 1)
                /\ Len(chunks[k]) <= max_chunk_size + 1

\* C18 witness: the chunking has ended with one chunk cut at a break before
\* its naive end and another cut hard although the first index of its window
\* is breakable.
C18_Witness ==
    /\ Chunked
    /\ \E k \in 1..Len(chunks) :
         ScannedChunk(k) /\ Len(chunks[k]) < max_chunk_size
    /\ \E k \in 1..Len(chunks) :
         /\ ScannedChunk(k)
         /\ Len(chunks[k]) = max_chunk_size
         /\ max_chunk_size > 1
         /\ BreakableAt(Max(ChunkStart(k), ChunkStart(k) + max_chunk_size - scan_back))

\* C20: if the padded text is no longer than the limit, the service is
\* called exactly once, with the whole padded text; otherwise it is called
\* once per chunk, in chunk order, after the chunking has ended and each call
\* returning before the next is made, and the result is the restored
\* concatenation of the per-call results in that order, nothing added between
\* them.
C20_CallProtocol ==
    (tpc \notin {"entry", "idle"} /\ text_with_placeholders # <<>>) =>
        IF Len(text_with_placeholders) <= max_chunk_size
        THEN /\ chunks = <<>>
             /\ calls = IF Done THEN <<text_with_placeholders>> ELSE <<>>
        ELSE /\ tpc = "split" => calls = <<>>
             /\ Len(calls) <= Len(chunks)
             /\ \A k \in 1..Len(calls) : calls[k] = chunks[k]
             /\ Len(transliterated_chunks) = Len(calls)
             /\ Len(call_failed) = Len(calls)
             /\ Done => /\ Len(calls) = Len(chunks)
                        /\ result = Restore(Concat(ExpectedResults))

\* C20 witness: a finished multi-chunk run of at least 3 calls, one of which
\* failed, and whose service changed the text.
C20_Witness ==
    /\ Done
    /\ Len(calls) >= 3
    /\ calls = chunks
    /\ \E k \in 1..Len(calls) : call_failed[k]
    /\ \E k \in 1..Len(calls) : transliterated_chunks[k] # chunks[k]

\* C25 (as claimed): no chunk boundary falls strictly inside an occurrence
\* of the sentinel <LINEBREAK> in the padded text.
C25_SentinelNotCut ==
    \A k \in 2..Len(chunks) :
        \A q \in 0..(Len(text_with_placeholders) - 11) :
            SubSeq(text_with_placeholders, q + 1, q + 11)
                = <<"<", "L", "I", "N", "E", "B", "R", "E", "A", "K", ">">>
            => ~(q < ChunkStart(k) /\ ChunkStart(k) < q + 11)

-----------------------------------------------------------------------------
(***************************************************************************)
(* Properties of parse_transcription_results (under SpecParse)             *)
(***************************************************************************)

TimingSaved == ppc = "saved_timing"

SpeakersOf(es) == { es[k].speaker_id : k \in 1..Len(es) }

RECURSIVE TimeOf(_, _)
TimeOf(es, s) ==
    IF es = <<>> THEN 0
    ELSE (IF Head(es).speaker_id = s
          THEN Head(es).end_time_seconds - Head(es).start_time_seconds
          ELSE 0) + TimeOf(Tail(es), s)

RECURSIVE TotalOf(_)
TotalOf(es) ==
    IF es = <<>> THEN 0
    ELSE Head(es).end_time_seconds - Head(es).start_time_seconds + TotalOf(Tail(es))

RECURSIVE SumNum(_)
SumNum(pct) ==
    IF DOMAIN pct = {} THEN 0
    ELSE LET s == CHOOSE x \in DOMAIN pct : TRUE
         IN  pct[s].num + SumNum([x \in DOMAIN pct \ {s} |-> pct[x]])

\* C16 (as claimed): for every file with a non-empty diarized list the
\* percentages cover every speaker of speaker_times_seconds and sum to 100.
C16_PercentagesSumTo100 ==
    (TimingSaved /\ data_received # <<>>) =>
        /\ DOMAIN speaker_percentages = DOMAIN speaker_times
        /\ \A s \in DOMAIN speaker_percentages :
              speaker_percentages[s].den = TotalOf(diarized)
        /\ SumNum(speaker_percentages) = 100 * TotalOf(diarized)
        /\ TotalOf(diarized) > 0

\* C16 (amended): speaker_times holds, for every speaker of the segments
\* used, the sum of that speaker's end - start; when the total is positive
\* the percentages cover every such speaker, each is time / total * 100, and
\* they sum to 100; when the total is 0 there are no percentages.
C16_PercentagesWhenTotalPositive ==
    (TimingSaved /\ data_received # <<>>) =>
        /\ DOMAIN speaker_times = SpeakersOf(diarized)
        /\ \A s \in DOMAIN speaker_times : speaker_times[s] = TimeOf(diarized, s)
        /\ IF TotalOf(diarized) > 0
           THEN /\ DOMAIN speaker_percentages = DOMAIN speaker_times
                /\ \A s \in DOMAIN speaker_percentages :
                      /\ speaker_percentages[s].num = 100 * TimeOf(diarized, s)
                      /\ speaker_percentages[s].den = TotalOf(diarized)
                /\ SumNum(speaker_percentages) = 100 * TotalOf(diarized)
           ELSE DOMAIN speaker_percentages = {}

\* C16 witness: timings saved for a file whose refinement merged segments,
\* with two speakers of positive time.
C16_Witness ==
    /\ TimingSaved
    /\ improve_diarization
    /\ Len(diarized) < Len(data_received)
    /\ Cardinality(DOMAIN speaker_percentages) >= 2
    /\ \A s \in DOMAIN speaker_percentages : speaker_percentages[s].num > 0
    /\ SumNum(speaker_percentages) = 100 * SumValues(speaker_times)

\* C26 (as claimed): after the call every segment of the caller's list has
\* its original speaker_id, transcript, start and end, so the data kept in
\* results["transcriptions"] is the data as received.
C26_ArgumentUnchanged ==
    ppc # "loaded" => data_entries = data_received

-----------------------------------------------------------------------------
(***************************************************************************)
(* Properties of the two jobs (under SpecJobs)                             *)
(***************************************************************************)

\* the split decision of transcribe_audio has been taken
SplitDecided == jpc \in {"chunks", "cleanup", "transcribed", "done"} /\ audio_exists

\* the plan of split_audio_if_needed has been returned
Planned == bpc \in {"planned", "processed", "done"}

\* C12 (as claimed): with the maximum chunk duration as the threshold
\* (self.chunk_duration, 29 s; 3600 s in the batch job), an audio is left
\* unsplit exactly when its duration is at most the maximum, and the splitter
\* is invoked with that maximum.
C12_SplitAtChunkDuration ==
    /\ (SplitDecided /\ audio_duration # <<>>) =>
          /\ split_calls = <<>> <=> audio_duration[1] <= 29
          /\ \A k \in 1..Len(split_calls) : split_calls[k].segment_time = 29
    /\ Planned =>
          /\ batch_split_calls = <<>> <=> duration_ms <= 3600 * 1000
          /\ \A k \in 1..Len(batch_split_calls) :
                batch_split_calls[k].segment_time = 3600

\* C12 (amended): split_audio_if_needed leaves the audio unsplit exactly when
\* its duration is at most 3600 s and otherwise invokes the splitter with
\* 3600 s; transcribe_audio leaves it unsplit exactly when its duration is
\* unknown or at most 30 s and otherwise invokes the splitter with 29 s.  An
\* unsplit audio is the whole plan.
C12_SplitDecision ==
    /\ SplitDecided =>
          /\ split_calls = <<>> <=>
                (audio_duration = <<>> \/ audio_duration[1] <= 30)
          /\ Len(split_calls) <= 1
          /\ \A k \in 1..Len(split_calls) : split_calls[k].segment_time = 29
          /\ split_calls = <<>> =>
                /\ chunk_paths = <<>>
                /\ uploads = <<[kind |-> "original", index |-> 0]>>
    /\ Planned =>
          /\ batch_split_calls = <<>> <=> duration_ms <= 3600 * 1000
          /\ Len(batch_split_calls) <= 1
          /\ \A k \in 1..Len(batch_split_calls) :
                batch_split_calls[k].segment_time = 3600
          /\ batch_split_calls = <<>> =>
                audio_paths = [kind |-> "original", chunks |-> <<>>]

\* C12 witness: transcribe_audio has finished a 30 s audio without splitting.
C12_Witness ==
    /\ jpc = "done"
    /\ audio_duration = <<30>>
    /\ split_calls = <<>>
    /\ uploads = <<[kind |-> "original", index |-> 0]>>
    /\ job_outcome = "success"

\* C13 (as claimed): when the splitting utility fails, the whole original
\* file is the plan and is transcribed; the job does not end without a
\* transcription, in either program.
C13_SplitFailureFallsBack ==
    /\ (jpc = "done" /\ split_calls # <<>> /\ ~split_calls[1].ok) =>
          uploads = <<[kind |-> "original", index |-> 0]>>
    /\ (Planned /\ batch_split_calls # <<>> /\ ~batch_split_calls[1].ok) =>
          /\ audio_paths = [kind |-> "original", chunks |-> <<>>]
          /\ bpc = "done" => steps # <<>>

IsBlank(c) == c \in {" ", "\n"}

IsNotBlank(c) == ~IsBlank(c)

\* a chunk transcript that counts: not empty, not error-flagged, not blank
Accepted(t) ==
    /\ t # <<>>
    /\ ~(Len(t) >= 7 /\ SubSeq(t, 1, 7) = <<"[", "E", "r", "r", "o", "r", ":">>)
    /\ \E i \in 1..Len(t) : IsNotBlank(t[i])

\* t without its leading and trailing blanks, for an accepted t
Trimmed(t) ==
    LET solid == { i \in 1..Len(t) : IsNotBlank(t[i]) }
        first == CHOOSE i \in solid : \A j \in solid : i <= j
        last  == CHOOSE i \in solid : \A j \in solid : j <= i
    IN  SubSeq(t, first, last)

RECURSIVE AcceptedTrimmed(_)
AcceptedTrimmed(ts) ==
    IF ts = <<>> THEN <<>>
    ELSE (IF Accepted(Head(ts)) THEN <<Trimmed(Head(ts))>> ELSE <<>>)
         \o AcceptedTrimmed(Tail(ts))

NoBlanks(t) == SelectSeq(t, IsNotBlank)

C15_TotalFailureEscalated ==
    ( /\ jpc = "done"
      /\ chunk_paths # <<>>
      /\ Len(transcripts) = Len(chunk_paths)
      /\ \A k \in 1..Len(transcripts) : ~Accepted(transcripts[k]) )
    => /\ job_outcome = "failed"
       /\ returned = <<>>
       /\ files_written = {}

\* the calls made so far are the first ones of the function, in its order
StepsInOrder == steps = SubSeq(ProcessSteps, 1, Len(steps))

\* C23: process_batch_transcription returns a result in every case: a raising
\* step or a job reported as failed gives success = False with the calls made
\* being exactly those up to the failing one (a failed job is followed by
\* neither download nor parse), nothing is called once the result is set,
\* and success = True is returned only after create, upload, start, wait,
\* the failure test, download and parse were all made in that order.
C23_ErrorContained ==
    /\ [](/\ StepsInOrder
          /\ results = "success" => steps = ProcessSteps
          /\ results = "job_failed"
                => /\ steps = SubSeq(ProcessSteps, 1, 5)
                   /\ steps[Len(steps)] = "is_failed"
          /\ results = "exception" => Len(steps) \in 1..Len(ProcessSteps)
          /\ results # "none" <=> bpc \in {"processed", "done"})
    /\ [][results # "none" => steps' = steps /\ results' = results]_vars

C23_Witness ==
    /\ bpc = "done"
    /\ results = "job_failed"
    /\ steps = <<"create_job", "upload_files", "start", "wait_until_complete",
                 "is_failed">>

\* a step that uploads a chunk uploads the one after the chunks already
\* answered, after the split and before the assembly, and it records that
\* chunk's answer (text or failure) in the same call
NextChunkInOrder ==
    uploads' # uploads /\ chunk_paths # <<>>
        => /\ jpc = "chunks" /\ jpc' = "chunks"
           /\ split_calls # <<>> /\ chunk_paths' = chunk_paths
           /\ Len(uploads) = Len(transcripts)
           /\ uploads'
                = Append(uploads, ChunkFile(chunk_paths[Len(uploads) + 1]))
           /\ Len(transcripts') = Len(transcripts) + 1

\* C21: in transcribe_audio the split is over before the first chunk is
\* uploaded, the chunks are uploaded one at a time in the order of the plan,
\* each answered (with text or a failure) before the next, the transcript is
\* assembled only when every chunk of the plan was attempted, and every job
\* ends, with a transcript or with a failure.
C21_JobOrdering ==
    /\ [](/\ Len(uploads) <= Len(chunk_paths) \/ uploads = <<OriginalFile>>
          /\ chunk_paths # <<>>
                => /\ Len(uploads) = Len(transcripts)
                   /\ \A i \in 1..Len(uploads) :
                         uploads[i] = ChunkFile(chunk_paths[i])
          /\ (jpc \in {"cleanup", "transcribed", "done"} /\ chunk_paths # <<>>)
                => Len(transcripts) = Len(chunk_paths)
          /\ jpc = "done" <=> job_outcome \in {"success", "failed"}
          /\ job_outcome = "success" <=> returned # <<>>)
    /\ [][NextChunkInOrder]_vars
    /\ (jpc = "start" ~> jpc = "done")

\* a job of three chunks or more that ended with a transcript
C21_Witness ==
    /\ jpc = "done"
    /\ job_outcome = "success"
    /\ Len(chunk_paths) >= 3
    /\ Len(uploads) = Len(chunk_paths)

\* the chunk files of the batch plan, none when the plan is the original file
BatchChunks ==
    IF audio_paths.kind = "chunks" THEN audio_paths.chunks ELSE <<>>

\* a step that takes a file out of a chunk directory is the next deletion of
\* the cleanup loop, and no step of a cleanup touches transcript or result
DeletionInCleanupOnly ==
    /\ ~(dir_files \subseteq dir_files')
          => /\ jpc = "cleanup"
             /\ removed' = removed + 1
             /\ dir_files \ dir_files' = {chunk_paths[removed']}
    /\ jpc = "cleanup" => transcript' = transcript
    /\ ~(batch_dir_files \subseteq batch_dir_files')
          => /\ bpc = "processed"
             /\ batch_removed' = batch_removed + 1
             /\ batch_dir_files \ batch_dir_files'
                  = {BatchChunks[batch_removed']}
    /\ bpc = "processed" => results' = results

\* C22: in a job that split its audio, every chunk file of the plan is still
\* there while chunks are transcribed and until the transcript is assembled
\* (the batch result is set); once the job is past its cleanup a deletion was
\* attempted for every chunk file of the plan, however many transcriptions
\* failed; and the deletions, failed or not, leave the transcript and the
\* result as they were.
C22_CleanupAfterAssembly ==
    /\ [](/\ jpc = "chunks"
                => /\ removed = 0
                   /\ \A i \in 1..Len(chunk_paths) :
                         chunk_paths[i] \in dir_files
          /\ (jpc \in {"transcribed", "done"} /\ chunk_paths # <<>>)
                => /\ removed = Len(chunk_paths)
                   /\ Len(transcripts) = Len(chunk_paths)
                   /\ transcript
                        = CombineTranscripts(full_transcript, marker_every)
          /\ (jpc = "done" /\ chunk_paths # <<>>)
                => returned = IF transcript # <<>> THEN <<transcript>>
                              ELSE <<>>
          /\ bpc \in {"start", "planned"}
                => /\ batch_removed = 0
                   /\ \A i \in 1..Len(BatchChunks) :
                         BatchChunks[i] \in batch_dir_files
          /\ bpc = "done"
                => /\ batch_removed = Len(BatchChunks)
                   /\ results # "none")
    /\ [][DeletionInCleanupOnly]_vars

\* a job ended after its first deletion failed and its second succeeded
C22_Witness ==
    /\ jpc = "done"
    /\ Len(chunk_paths) >= 2
    /\ removed = Len(chunk_paths)
    /\ chunk_paths[1] \in dir_files
    /\ chunk_paths[2] \notin dir_files
    /\ \E i \in 1..Len(transcripts) : transcripts[i] = <<>>
    /\ returned # <<>>

\* the files the split of this job wrote, in playback order
OwnChunks(n) == [i \in 1..n |-> i - 1]

\* C30 (as claimed): whatever earlier jobs left in the chunk directory, the
\* list a successful split returns holds the files this job's split wrote
\* and no other, in playback order.
C30_PlanScopedToJob ==
    /\ (jpc # "idle" /\ split_calls # <<>> /\ split_calls[1].ok)
          => chunk_paths
               = OwnChunks(NumChunks(audio_duration[1], ChunkDurationSeconds))
    /\ (bpc \in {"planned", "processed", "done"}
          /\ batch_split_calls # <<>> /\ batch_split_calls[1].ok)
          => audio_paths
               = [kind |-> "chunks",
                  chunks |-> OwnChunks(NumChunks(duration_ms, MaxDurationMs))]

-----------------------------------------------------------------------------
(***************************************************************************)
(* Properties of the repeated application (under SpecReapply)              *)
(***************************************************************************)

\* es has an interior segment shorter than 2 s whose two neighbours share a
\* speaker other than its own
HasIsolatedShort(es) ==
    \E i \in 2..(Len(es) - 1) :
        /\ es[i].end_time_seconds - es[i].start_time_seconds < 2
        /\ es[i-1].speaker_id = es[i+1].speaker_id
        /\ es[i].speaker_id # es[i-1].speaker_id

\* C24 (as claimed): one application reaches a fixed point: applying the
\* function to its output returns the output, and the output has no
\* isolated short segment.
C24_Idempotent ==
    apc = "reapplied" => (twice = once /\ ~HasIsolatedShort(once))

\* C24 (amended): applying the function to its output returns the output
\* whenever the output has no isolated short segment; merging can leave one.
C24_FixedPointWithoutIsolatedShort ==
    (apc = "reapplied" /\ ~HasIsolatedShort(once)) => twice = once

\* C24 witness: a second application of no effect on an output of at least
\* 3 segments into which the first application had merged its input.
C24_Witness ==
    /\ apc = "reapplied"
    /\ Len(once) >= 3
    /\ Len(once) < Len(segments)
    /\ ~HasIsolatedShort(once)
    /\ twice = once

====
